---- MODULE Spec2Model ----
(***************************************************************************)
(* A model of upnpy's SSDPDevice (src/upnpy/ssdp/SSDPDevice.py): the       *)
(* construction of a device from its description, of its services from     *)
(* their SCPD descriptions, of the actions and arguments of a service, and *)
(* the invocation of an action.                                            *)
(*                                                                         *)
(* XML is modelled by what minidom gives the code: getElementsByTagName    *)
(* is a sequence of elements, an element with text content is the          *)
(* one-element sequence of its text, an empty element is <<>>.  Python's   *)
(* None is <<>> and a value x that may be None is <<x>>.  A call that may  *)
(* raise yields [error, value]: error is "" when it returns.  A text the   *)
(* code takes apart (a URL, a service type, a service id) is the sequence  *)
(* of its characters; a text it uses whole (a name) is a string.           *)
(***************************************************************************)
EXTENDS Integers, Sequences, FiniteSets

\* Bound on the number of <action> and <argument> elements of a service description.
MaxElems == 3
\* Bound on the number of <service> elements of a device description.
MaxServices == 2
\* Bound on the number of calls of _get_services after construction.
MaxCalls == 2

None == <<>>
Some(x) == <<x>>
Return(v) == [error |-> "", value |-> v]
Raise(e) == [error |-> e, value |-> <<>>]

EmptyDict == <<>>
\* Python's empty list where the code later holds a dict: [] does not take
\* a name as index, {} lacks the name.
EmptyList == [list |-> <<>>]
DictSet(d, k, v) == [x \in (DOMAIN d) \cup {k} |-> IF x = k THEN v ELSE d[x]]

\* list[0]: IndexError on an empty list.
First(list) == IF list = <<>> THEN Raise("IndexError") ELSE Return(list[1])
\* element.firstChild.nodeValue: AttributeError when the element has no child.
nodeValue(element) == IF element = <<>> THEN Raise("AttributeError") ELSE Return(element[1])
\* getElementsByTagName(tag)[0].firstChild.nodeValue
FirstText(list) ==
  LET e == First(list)
  IN IF e.error # "" THEN e ELSE nodeValue(e.value)

(***************************************************************************)
(* Texts: str.find, str.split, str.partition, int                          *)
(***************************************************************************)
LowerAlphabet ==
  <<"a", "b", "c", "d", "e", "f", "g", "h", "i", "j", "k", "l", "m",
    "n", "o", "p", "q", "r", "s", "t", "u", "v", "w", "x", "y", "z">>
UpperAlphabet ==
  <<"A", "B", "C", "D", "E", "F", "G", "H", "I", "J", "K", "L", "M",
    "N", "O", "P", "Q", "R", "S", "T", "U", "V", "W", "X", "Y", "Z">>
DigitChars == <<"0", "1", "2", "3", "4", "5", "6", "7", "8", "9">>
LowerLetters == {LowerAlphabet[i] : i \in DOMAIN LowerAlphabet}
UpperLetters == {UpperAlphabet[i] : i \in DOMAIN UpperAlphabet}
\* The ASCII digits.
Digits == {DigitChars[i] : i \in DOMAIN DigitChars}
HexDigits == Digits \cup {"a", "b", "c", "d", "e", "f", "A", "B", "C", "D", "E", "F"}

\* A character that TLA+ cannot write is named by its Python escape: the
\* vertical tab is "\\x0b", ARABIC-INDIC DIGIT THREE is "\\u0663".
\* The whitespace int() skips around a numeral: the ASCII whitespace of C
\* and the Unicode whitespace outside ASCII.
IntWhitespace ==
  {"\t", "\n", "\\x0b", "\f", "\r", " ", "\\x85", "\\xa0", "\\u1680",
   "\\u2000", "\\u2001", "\\u2002", "\\u2003", "\\u2004", "\\u2005",
   "\\u2006", "\\u2007", "\\u2008", "\\u2009", "\\u200a", "\\u2028",
   "\\u2029", "\\u202f", "\\u205f", "\\u3000"}
\* The characters urlparse strips from the front of a URL: the C0 controls
\* and the space.
C0ControlOrSpace ==
  {"\\x00", "\\x01", "\\x02", "\\x03", "\\x04", "\\x05", "\\x06", "\\x07",
   "\\x08", "\t", "\n", "\\x0b", "\f", "\r", "\\x0e", "\\x0f", "\\x10",
   "\\x11", "\\x12", "\\x13", "\\x14", "\\x15", "\\x16", "\\x17", "\\x18",
   "\\x19", "\\x1a", "\\x1b", "\\x1c", "\\x1d", "\\x1e", "\\x1f", " "}
\* The characters outside ASCII whose NFKC normalisation holds one of / ? # @ :
NfkcDelimiters ==
  {"\\u2047", "\\u2048", "\\u2049", "\\u2100", "\\u2101", "\\u2105",
   "\\u2106", "\\u2a74", "\\ufe13", "\\ufe16", "\\ufe55", "\\ufe56",
   "\\ufe5f", "\\ufe6b", "\\uff03", "\\uff0f", "\\uff1a", "\\uff1f", "\\uff20"}
\* The decimal digits of Unicode outside ASCII: one row per script, the
\* digits of value 0 to 9 in order.
UnicodeDigits ==
  << <<"\\u0660", "\\u0661", "\\u0662", "\\u0663", "\\u0664", "\\u0665", "\\u0666", "\\u0667", "\\u0668", "\\u0669">>,
    <<"\\u06f0", "\\u06f1", "\\u06f2", "\\u06f3", "\\u06f4", "\\u06f5", "\\u06f6", "\\u06f7", "\\u06f8", "\\u06f9">>,
    <<"\\u07c0", "\\u07c1", "\\u07c2", "\\u07c3", "\\u07c4", "\\u07c5", "\\u07c6", "\\u07c7", "\\u07c8", "\\u07c9">>,
    <<"\\u0966", "\\u0967", "\\u0968", "\\u0969", "\\u096a", "\\u096b", "\\u096c", "\\u096d", "\\u096e", "\\u096f">>,
    <<"\\u09e6", "\\u09e7", "\\u09e8", "\\u09e9", "\\u09ea", "\\u09eb", "\\u09ec", "\\u09ed", "\\u09ee", "\\u09ef">>,
    <<"\\u0a66", "\\u0a67", "\\u0a68", "\\u0a69", "\\u0a6a", "\\u0a6b", "\\u0a6c", "\\u0a6d", "\\u0a6e", "\\u0a6f">>,
    <<"\\u0ae6", "\\u0ae7", "\\u0ae8", "\\u0ae9", "\\u0aea", "\\u0aeb", "\\u0aec", "\\u0aed", "\\u0aee", "\\u0aef">>,
    <<"\\u0b66", "\\u0b67", "\\u0b68", "\\u0b69", "\\u0b6a", "\\u0b6b", "\\u0b6c", "\\u0b6d", "\\u0b6e", "\\u0b6f">>,
    <<"\\u0be6", "\\u0be7", "\\u0be8", "\\u0be9", "\\u0bea", "\\u0beb", "\\u0bec", "\\u0bed", "\\u0bee", "\\u0bef">>,
    <<"\\u0c66", "\\u0c67", "\\u0c68", "\\u0c69", "\\u0c6a", "\\u0c6b", "\\u0c6c", "\\u0c6d", "\\u0c6e", "\\u0c6f">>,
    <<"\\u0ce6", "\\u0ce7", "\\u0ce8", "\\u0ce9", "\\u0cea", "\\u0ceb", "\\u0cec", "\\u0ced", "\\u0cee", "\\u0cef">>,
    <<"\\u0d66", "\\u0d67", "\\u0d68", "\\u0d69", "\\u0d6a", "\\u0d6b", "\\u0d6c", "\\u0d6d", "\\u0d6e", "\\u0d6f">>,
    <<"\\u0de6", "\\u0de7", "\\u0de8", "\\u0de9", "\\u0dea", "\\u0deb", "\\u0dec", "\\u0ded", "\\u0dee", "\\u0def">>,
    <<"\\u0e50", "\\u0e51", "\\u0e52", "\\u0e53", "\\u0e54", "\\u0e55", "\\u0e56", "\\u0e57", "\\u0e58", "\\u0e59">>,
    <<"\\u0ed0", "\\u0ed1", "\\u0ed2", "\\u0ed3", "\\u0ed4", "\\u0ed5", "\\u0ed6", "\\u0ed7", "\\u0ed8", "\\u0ed9">>,
    <<"\\u0f20", "\\u0f21", "\\u0f22", "\\u0f23", "\\u0f24", "\\u0f25", "\\u0f26", "\\u0f27", "\\u0f28", "\\u0f29">>,
    <<"\\u1040", "\\u1041", "\\u1042", "\\u1043", "\\u1044", "\\u1045", "\\u1046", "\\u1047", "\\u1048", "\\u1049">>,
    <<"\\u1090", "\\u1091", "\\u1092", "\\u1093", "\\u1094", "\\u1095", "\\u1096", "\\u1097", "\\u1098", "\\u1099">>,
    <<"\\u17e0", "\\u17e1", "\\u17e2", "\\u17e3", "\\u17e4", "\\u17e5", "\\u17e6", "\\u17e7", "\\u17e8", "\\u17e9">>,
    <<"\\u1810", "\\u1811", "\\u1812", "\\u1813", "\\u1814", "\\u1815", "\\u1816", "\\u1817", "\\u1818", "\\u1819">>,
    <<"\\u1946", "\\u1947", "\\u1948", "\\u1949", "\\u194a", "\\u194b", "\\u194c", "\\u194d", "\\u194e", "\\u194f">>,
    <<"\\u19d0", "\\u19d1", "\\u19d2", "\\u19d3", "\\u19d4", "\\u19d5", "\\u19d6", "\\u19d7", "\\u19d8", "\\u19d9">>,
    <<"\\u1a80", "\\u1a81", "\\u1a82", "\\u1a83", "\\u1a84", "\\u1a85", "\\u1a86", "\\u1a87", "\\u1a88", "\\u1a89">>,
    <<"\\u1a90", "\\u1a91", "\\u1a92", "\\u1a93", "\\u1a94", "\\u1a95", "\\u1a96", "\\u1a97", "\\u1a98", "\\u1a99">>,
    <<"\\u1b50", "\\u1b51", "\\u1b52", "\\u1b53", "\\u1b54", "\\u1b55", "\\u1b56", "\\u1b57", "\\u1b58", "\\u1b59">>,
    <<"\\u1bb0", "\\u1bb1", "\\u1bb2", "\\u1bb3", "\\u1bb4", "\\u1bb5", "\\u1bb6", "\\u1bb7", "\\u1bb8", "\\u1bb9">>,
    <<"\\u1c40", "\\u1c41", "\\u1c42", "\\u1c43", "\\u1c44", "\\u1c45", "\\u1c46", "\\u1c47", "\\u1c48", "\\u1c49">>,
    <<"\\u1c50", "\\u1c51", "\\u1c52", "\\u1c53", "\\u1c54", "\\u1c55", "\\u1c56", "\\u1c57", "\\u1c58", "\\u1c59">>,
    <<"\\ua620", "\\ua621", "\\ua622", "\\ua623", "\\ua624", "\\ua625", "\\ua626", "\\ua627", "\\ua628", "\\ua629">>,
    <<"\\ua8d0", "\\ua8d1", "\\ua8d2", "\\ua8d3", "\\ua8d4", "\\ua8d5", "\\ua8d6", "\\ua8d7", "\\ua8d8", "\\ua8d9">>,
    <<"\\ua900", "\\ua901", "\\ua902", "\\ua903", "\\ua904", "\\ua905", "\\ua906", "\\ua907", "\\ua908", "\\ua909">>,
    <<"\\ua9d0", "\\ua9d1", "\\ua9d2", "\\ua9d3", "\\ua9d4", "\\ua9d5", "\\ua9d6", "\\ua9d7", "\\ua9d8", "\\ua9d9">>,
    <<"\\ua9f0", "\\ua9f1", "\\ua9f2", "\\ua9f3", "\\ua9f4", "\\ua9f5", "\\ua9f6", "\\ua9f7", "\\ua9f8", "\\ua9f9">>,
    <<"\\uaa50", "\\uaa51", "\\uaa52", "\\uaa53", "\\uaa54", "\\uaa55", "\\uaa56", "\\uaa57", "\\uaa58", "\\uaa59">>,
    <<"\\uabf0", "\\uabf1", "\\uabf2", "\\uabf3", "\\uabf4", "\\uabf5", "\\uabf6", "\\uabf7", "\\uabf8", "\\uabf9">>,
    <<"\\uff10", "\\uff11", "\\uff12", "\\uff13", "\\uff14", "\\uff15", "\\uff16", "\\uff17", "\\uff18", "\\uff19">>,
    <<"\\U000104a0", "\\U000104a1", "\\U000104a2", "\\U000104a3", "\\U000104a4", "\\U000104a5", "\\U000104a6", "\\U000104a7", "\\U000104a8", "\\U000104a9">>,
    <<"\\U00010d30", "\\U00010d31", "\\U00010d32", "\\U00010d33", "\\U00010d34", "\\U00010d35", "\\U00010d36", "\\U00010d37", "\\U00010d38", "\\U00010d39">>,
    <<"\\U00011066", "\\U00011067", "\\U00011068", "\\U00011069", "\\U0001106a", "\\U0001106b", "\\U0001106c", "\\U0001106d", "\\U0001106e", "\\U0001106f">>,
    <<"\\U000110f0", "\\U000110f1", "\\U000110f2", "\\U000110f3", "\\U000110f4", "\\U000110f5", "\\U000110f6", "\\U000110f7", "\\U000110f8", "\\U000110f9">>,
    <<"\\U00011136", "\\U00011137", "\\U00011138", "\\U00011139", "\\U0001113a", "\\U0001113b", "\\U0001113c", "\\U0001113d", "\\U0001113e", "\\U0001113f">>,
    <<"\\U000111d0", "\\U000111d1", "\\U000111d2", "\\U000111d3", "\\U000111d4", "\\U000111d5", "\\U000111d6", "\\U000111d7", "\\U000111d8", "\\U000111d9">>,
    <<"\\U000112f0", "\\U000112f1", "\\U000112f2", "\\U000112f3", "\\U000112f4", "\\U000112f5", "\\U000112f6", "\\U000112f7", "\\U000112f8", "\\U000112f9">>,
    <<"\\U00011450", "\\U00011451", "\\U00011452", "\\U00011453", "\\U00011454", "\\U00011455", "\\U00011456", "\\U00011457", "\\U00011458", "\\U00011459">>,
    <<"\\U000114d0", "\\U000114d1", "\\U000114d2", "\\U000114d3", "\\U000114d4", "\\U000114d5", "\\U000114d6", "\\U000114d7", "\\U000114d8", "\\U000114d9">>,
    <<"\\U00011650", "\\U00011651", "\\U00011652", "\\U00011653", "\\U00011654", "\\U00011655", "\\U00011656", "\\U00011657", "\\U00011658", "\\U00011659">>,
    <<"\\U000116c0", "\\U000116c1", "\\U000116c2", "\\U000116c3", "\\U000116c4", "\\U000116c5", "\\U000116c6", "\\U000116c7", "\\U000116c8", "\\U000116c9">>,
    <<"\\U00011730", "\\U00011731", "\\U00011732", "\\U00011733", "\\U00011734", "\\U00011735", "\\U00011736", "\\U00011737", "\\U00011738", "\\U00011739">>,
    <<"\\U000118e0", "\\U000118e1", "\\U000118e2", "\\U000118e3", "\\U000118e4", "\\U000118e5", "\\U000118e6", "\\U000118e7", "\\U000118e8", "\\U000118e9">>,
    <<"\\U00011950", "\\U00011951", "\\U00011952", "\\U00011953", "\\U00011954", "\\U00011955", "\\U00011956", "\\U00011957", "\\U00011958", "\\U00011959">>,
    <<"\\U00011c50", "\\U00011c51", "\\U00011c52", "\\U00011c53", "\\U00011c54", "\\U00011c55", "\\U00011c56", "\\U00011c57", "\\U00011c58", "\\U00011c59">>,
    <<"\\U00011d50", "\\U00011d51", "\\U00011d52", "\\U00011d53", "\\U00011d54", "\\U00011d55", "\\U00011d56", "\\U00011d57", "\\U00011d58", "\\U00011d59">>,
    <<"\\U00011da0", "\\U00011da1", "\\U00011da2", "\\U00011da3", "\\U00011da4", "\\U00011da5", "\\U00011da6", "\\U00011da7", "\\U00011da8", "\\U00011da9">>,
    <<"\\U00016a60", "\\U00016a61", "\\U00016a62", "\\U00016a63", "\\U00016a64", "\\U00016a65", "\\U00016a66", "\\U00016a67", "\\U00016a68", "\\U00016a69">>,
    <<"\\U00016ac0", "\\U00016ac1", "\\U00016ac2", "\\U00016ac3", "\\U00016ac4", "\\U00016ac5", "\\U00016ac6", "\\U00016ac7", "\\U00016ac8", "\\U00016ac9">>,
    <<"\\U00016b50", "\\U00016b51", "\\U00016b52", "\\U00016b53", "\\U00016b54", "\\U00016b55", "\\U00016b56", "\\U00016b57", "\\U00016b58", "\\U00016b59">>,
    <<"\\U0001d7ce", "\\U0001d7cf", "\\U0001d7d0", "\\U0001d7d1", "\\U0001d7d2", "\\U0001d7d3", "\\U0001d7d4", "\\U0001d7d5", "\\U0001d7d6", "\\U0001d7d7">>,
    <<"\\U0001d7d8", "\\U0001d7d9", "\\U0001d7da", "\\U0001d7db", "\\U0001d7dc", "\\U0001d7dd", "\\U0001d7de", "\\U0001d7df", "\\U0001d7e0", "\\U0001d7e1">>,
    <<"\\U0001d7e2", "\\U0001d7e3", "\\U0001d7e4", "\\U0001d7e5", "\\U0001d7e6", "\\U0001d7e7", "\\U0001d7e8", "\\U0001d7e9", "\\U0001d7ea", "\\U0001d7eb">>,
    <<"\\U0001d7ec", "\\U0001d7ed", "\\U0001d7ee", "\\U0001d7ef", "\\U0001d7f0", "\\U0001d7f1", "\\U0001d7f2", "\\U0001d7f3", "\\U0001d7f4", "\\U0001d7f5">>,
    <<"\\U0001d7f6", "\\U0001d7f7", "\\U0001d7f8", "\\U0001d7f9", "\\U0001d7fa", "\\U0001d7fb", "\\U0001d7fc", "\\U0001d7fd", "\\U0001d7fe", "\\U0001d7ff">>,
    <<"\\U0001e140", "\\U0001e141", "\\U0001e142", "\\U0001e143", "\\U0001e144", "\\U0001e145", "\\U0001e146", "\\U0001e147", "\\U0001e148", "\\U0001e149">>,
    <<"\\U0001e2f0", "\\U0001e2f1", "\\U0001e2f2", "\\U0001e2f3", "\\U0001e2f4", "\\U0001e2f5", "\\U0001e2f6", "\\U0001e2f7", "\\U0001e2f8", "\\U0001e2f9">>,
    <<"\\U0001e950", "\\U0001e951", "\\U0001e952", "\\U0001e953", "\\U0001e954", "\\U0001e955", "\\U0001e956", "\\U0001e957", "\\U0001e958", "\\U0001e959">>,
    <<"\\U0001fbf0", "\\U0001fbf1", "\\U0001fbf2", "\\U0001fbf3", "\\U0001fbf4", "\\U0001fbf5", "\\U0001fbf6", "\\U0001fbf7", "\\U0001fbf8", "\\U0001fbf9">>>>
\* The characters int() reads as decimal digits.
DecimalDigits ==
  Digits \cup {UnicodeDigits[b][i] : b \in DOMAIN UnicodeDigits, i \in DOMAIN DigitChars}

\* str.find of a set of characters: the first position, 0 when there is none.
Find(text, chars) ==
  IF \E i \in 1..Len(text) : text[i] \in chars
  THEN CHOOSE i \in 1..Len(text) :
         text[i] \in chars /\ \A j \in 1..(i - 1) : text[j] \notin chars
  ELSE 0

\* c in text
Contains(text, c) == Find(text, {c}) # 0
\* text.partition(c)[0] and text.partition(c)[2]
Before(text, c) ==
  IF Find(text, {c}) = 0 THEN text ELSE SubSeq(text, 1, Find(text, {c}) - 1)
After(text, c) ==
  IF Find(text, {c}) = 0 THEN <<>> ELSE SubSeq(text, Find(text, {c}) + 1, Len(text))

\* text.split(sep): the segments of a text between the occurrences of sep.
RECURSIVE SplitOn(_, _)
SplitOn(text, sep) ==
  IF Find(text, {sep}) = 0 THEN <<text>>
  ELSE <<Before(text, sep)>> \o SplitOn(After(text, sep), sep)
\* text.split(':')
Split(text) == SplitOn(text, ":")

\* The words of a text joined by colons.
RECURSIVE Join(_)
Join(words) ==
  IF words = <<>> THEN <<>>
  ELSE IF Len(words) = 1 THEN words[1]
  ELSE words[1] \o <<":">> \o Join(Tail(words))

\* text.lstrip(chars) and text.rstrip(chars)
LStrip(text, chars) ==
  IF \A i \in 1..Len(text) : text[i] \in chars THEN <<>>
  ELSE SubSeq(text,
              CHOOSE i \in 1..Len(text) :
                text[i] \notin chars /\ \A j \in 1..(i - 1) : text[j] \in chars,
              Len(text))
RStrip(text, chars) ==
  IF \A i \in 1..Len(text) : text[i] \in chars THEN <<>>
  ELSE SubSeq(text, 1,
              CHOOSE i \in 1..Len(text) :
                text[i] \notin chars /\ \A j \in (i + 1)..Len(text) : text[j] \in chars)

\* sys.int_info.default_max_str_digits: the most digits int() converts.
MaxStrDigits == 4300
\* The value of a decimal digit.
DigitValue(c) ==
  IF c \in Digits
  THEN (CHOOSE i \in DOMAIN DigitChars : DigitChars[i] = c) - 1
  ELSE (CHOOSE i \in DOMAIN DigitChars :
          \E b \in DOMAIN UnicodeDigits : UnicodeDigits[b][i] = c) - 1
\* The digits of value zero.
ZeroDigits == {"0"} \cup {UnicodeDigits[b][1] : b \in DOMAIN UnicodeDigits}
\* The number that decimal digits write after the number n.
RECURSIVE DecimalValue(_, _)
DecimalValue(digits, n) ==
  IF digits = <<>> THEN n
  ELSE DecimalValue(Tail(digits), 10 * n + DigitValue(digits[1]))
\* The digits of a numeral without its underscores and leading zeros.
Significant(body) == LStrip(SelectSeq(body, LAMBDA c : c # "_"), ZeroDigits)
\* The digits of an int literal: single underscores may separate them.
IsNumeral(body) ==
  /\ body # <<>>
  /\ \A i \in 1..Len(body) : body[i] \in DecimalDigits \cup {"_"}
  /\ body[1] # "_"
  /\ body[Len(body)] # "_"
  /\ \A i \in 1..(Len(body) - 1) : ~(body[i] = "_" /\ body[i + 1] = "_")
IntOfSigned(sign, body) ==
  IF ~IsNumeral(body) THEN Raise("ValueError")
  ELSE IF Len(SelectSeq(body, LAMBDA c : c # "_")) > MaxStrDigits THEN Raise("ValueError")
  ELSE IF sign = "-"
       THEN Return(0 - DecimalValue(Significant(body), 0))
       ELSE Return(DecimalValue(Significant(body), 0))
IntOfStripped(text) ==
  IF text # <<>> /\ text[1] \in {"+", "-"}
  THEN IntOfSigned(text[1], Tail(text))
  ELSE IntOfSigned("+", text)
\* int(text): surrounding whitespace, an optional sign, a decimal numeral of
\* at most MaxStrDigits digits.
IntOf(text) == IntOfStripped(RStrip(LStrip(text, IntWhitespace), IntWhitespace))

(***************************************************************************)
(* Service descriptions (SCPD)                                             *)
(***************************************************************************)
\* The names of the actions of a description: one that is the name of no
\* attribute of a Service, one that is (self.id, line 166).
ActionNames == {"X", "id"}
ArgNames == {"a", "b"}
Directions == {"in", "out", "inout"}
\* The <retval> elements of an <argument>: none, an empty one, one with text.
RetvalElements == {<<>>, << <<>> >>, << <<"1">> >>}
ArgumentElements ==
  [name : ArgNames, direction : Directions, retval : RetvalElements,
   relatedStateVariable : {"V"}]

ArgLists(n) == [1..n -> ArgumentElements]
\* The <action> elements made of k elements: the action and its arguments.
ActionElementsOfSize(k) ==
  IF k = 1
  THEN {[name |-> n, argumentList |-> al] : n \in ActionNames, al \in {<<>>, << <<>> >>}}
  ELSE {[name |-> n, argumentList |-> <<args>>] : n \in ActionNames, args \in ArgLists(k - 1)}

RECURSIVE DescriptionsOfSize(_)
DescriptionsOfSize(s) ==
  IF s = 0 THEN {<<>>}
  ELSE UNION {{<<a>> \o d : a \in ActionElementsOfSize(k), d \in DescriptionsOfSize(s - k)}
              : k \in 1..s}
ServiceDescriptions == UNION {DescriptionsOfSize(s) : s \in 0..MaxElems}

(***************************************************************************)
(* SSDPDevice.Service.Action.Argument and SSDPDevice.Service.Action        *)
(***************************************************************************)
Argument(name, direction, return_value, related_state_variable) ==
  [name |-> name, direction |-> direction, return_value |-> return_value,
   related_state_variable |-> related_state_variable]

\* The loop of Action.__init__ over self.arguments, then the Action.  The
\* back-reference self.service is not part of the value.
RECURSIVE classify(_, _, _, _, _)
classify(name, arguments, i, args_in, args_out) ==
  IF i > Len(arguments)
  THEN Return([name |-> name, arguments |-> arguments,
               args_in |-> args_in, args_out |-> args_out])
  ELSE IF arguments[i].direction = "in"
       THEN classify(name, arguments, i + 1, Append(args_in, arguments[i]), args_out)
  ELSE IF arguments[i].direction = "out"
       THEN classify(name, arguments, i + 1, args_in, Append(args_out, arguments[i]))
  ELSE Raise("ValueError")

\* Action.__init__ with an argument of unknown direction dropped instead of refused.
RECURSIVE Action__init__dropping_from(_, _, _, _, _)
Action__init__dropping_from(name, arguments, i, args_in, args_out) ==
  IF i > Len(arguments)
  THEN Return([name |-> name, arguments |-> arguments,
               args_in |-> args_in, args_out |-> args_out])
  ELSE IF arguments[i].direction = "in"
       THEN Action__init__dropping_from(name, arguments, i + 1,
                                        Append(args_in, arguments[i]), args_out)
  ELSE IF arguments[i].direction = "out"
       THEN Action__init__dropping_from(name, arguments, i + 1, args_in,
                                        Append(args_out, arguments[i]))
  ELSE Action__init__dropping_from(name, arguments, i + 1, args_in, args_out)
Action__init__dropping(name, argument_list) ==
  Action__init__dropping_from(name, argument_list, 1, <<>>, <<>>)

\* Action.__init__ with args_in built by insertion at the front.
RECURSIVE Action__init__prepending_from(_, _, _, _, _)
Action__init__prepending_from(name, arguments, i, args_in, args_out) ==
  IF i > Len(arguments)
  THEN Return([name |-> name, arguments |-> arguments,
               args_in |-> args_in, args_out |-> args_out])
  ELSE IF arguments[i].direction = "in"
       THEN Action__init__prepending_from(name, arguments, i + 1,
                                          <<arguments[i]>> \o args_in, args_out)
  ELSE IF arguments[i].direction = "out"
       THEN Action__init__prepending_from(name, arguments, i + 1, args_in,
                                          Append(args_out, arguments[i]))
  ELSE Raise("ValueError")
Action__init__prepending(name, argument_list) ==
  Action__init__prepending_from(name, argument_list, 1, <<>>, <<>>)

\* Action.__init__: the Action, or the error it raises.
Action__init__(name, argument_list) == classify(name, argument_list, 1, <<>>, <<>>)

(***************************************************************************)
(* SSDPDevice.Service._get_actions                                         *)
(***************************************************************************)
\* One <argument> element: name, direction, the optional retval, relatedStateVariable.
parse_argument(argument) ==
  LET rv == IF argument.retval = <<>> THEN Return(None)
            ELSE LET t == nodeValue(argument.retval[1])
                 IN IF t.error # "" THEN t ELSE Return(Some(t.value))
  IN IF rv.error # "" THEN rv
     ELSE Return(Argument(argument.name, argument.direction, rv.value,
                          argument.relatedStateVariable))

RECURSIVE collect_arguments(_, _, _)
collect_arguments(elements, i, action_arguments) ==
  IF i > Len(elements) THEN Return(action_arguments)
  ELSE LET a == parse_argument(elements[i])
       IN IF a.error # "" THEN a
          ELSE collect_arguments(elements, i + 1, Append(action_arguments, a.value))

\* _get_actions with the IndexError of a missing <argumentList> not caught.
arguments_of_action_required(action) ==
  LET l == First(action.argumentList)
  IN IF l.error # "" THEN l ELSE collect_arguments(l.value, 1, <<>>)

\* The argument list of one <action> element: empty when it has no <argumentList>.
arguments_of_action(action) ==
  LET l == First(action.argumentList)
  IN IF l.error = "IndexError" THEN Return(<<>>)
     ELSE collect_arguments(l.value, 1, <<>>)

\* The loop of _get_actions over the <action> elements: get_actions_loop
\* collects the arguments of the i-th, action_collected builds its Action,
\* action_built registers it in all_actions.
RECURSIVE get_actions_loop(_, _, _)
RECURSIVE action_collected(_, _, _, _)
RECURSIVE action_built(_, _, _, _)
get_actions_loop(actions, i, all_actions) ==
  IF i > Len(actions) THEN Return(all_actions)
  ELSE action_collected(actions, i, all_actions, arguments_of_action(actions[i]))
action_collected(actions, i, all_actions, args) ==
  IF args.error # "" THEN args
  ELSE action_built(actions, i, all_actions, Action__init__(actions[i].name, args.value))
action_built(actions, i, all_actions, act) ==
  IF act.error # "" THEN act
  ELSE get_actions_loop(actions, i + 1, DictSet(all_actions, actions[i].name, act.value))

\* Service._get_actions under _service_description_required: the action map
\* it assigns to self.actions, or the error it raises.
Service_get_actions(description) ==
  IF description = None THEN Raise("ValueError")
  ELSE get_actions_loop(description[1], 1, EmptyDict)

(***************************************************************************)
(* SSDPDevice.Service                                                      *)
(***************************************************************************)
\* Service._get_service_type: service.split(':')[3]
get_service_type(service) ==
  IF Len(Split(service)) < 4 THEN Raise("IndexError") ELSE Return(Split(service)[4])
\* Service._get_service_version: int(service.split(':')[4])
get_service_version(service) ==
  IF Len(Split(service)) < 5 THEN Raise("IndexError") ELSE IntOf(Split(service)[5])

\* utils.make_http_request(url).read(): what the network answers, the
\* document or a transport error.
HttpOk(doc) == Return(doc)
HttpError == Raise("TransportError")

\* The arguments of Service.__init__.
ServiceArgs(service, service_id, scpd_url, control_url, event_sub_url, base_url) ==
  [service |-> service, service_id |-> service_id, scpd_url |-> scpd_url,
   control_url |-> control_url, event_sub_url |-> event_sub_url, base_url |-> base_url]

\* What Service.__init__ did: the error raised ("" if none), the fields
\* assigned so far, the requests made through utils.make_http_request.
Built(error, value, requests) == [error |-> error, value |-> value, requests |-> requests]

\* The fields of a Service as lines 163-172 of __init__ assign them.
ServiceFields(a, type_, version) ==
  [service |-> a.service, type_ |-> type_, version |-> version, id |-> a.service_id,
   scpd_url |-> a.scpd_url, control_url |-> a.control_url,
   event_sub_url |-> a.event_sub_url, base_url |-> a.base_url,
   actions |-> EmptyList, description |-> None]

\* Line 175 of Service.__init__: acts is what _get_actions returned or raised.
Service_with_actions(described, requests, acts) ==
  IF acts.error # "" THEN Built(acts.error, described, requests)
  ELSE Built("", [described EXCEPT !.actions = acts.value], requests)

\* Lines 174-175 of Service.__init__: _get_description requests
\* base_url + scpd_url and reply is the answer; then _get_actions.
Service_described(new, reply) ==
  IF reply.error # ""
  THEN Built(reply.error, new, <<[url |-> new.base_url \o new.scpd_url, ok |-> FALSE]>>)
  ELSE Service_with_actions([new EXCEPT !.description = Some(reply.value)],
                            <<[url |-> new.base_url \o new.scpd_url, ok |-> TRUE]>>,
                            Service_get_actions(Some(reply.value)))

\* Line 165 of Service.__init__: v is what _get_service_version returned or raised.
Service_with_version(a, type_, reply, v) ==
  IF v.error # "" THEN Built(v.error, [service |-> a.service, type_ |-> type_], <<>>)
  ELSE Service_described(ServiceFields(a, type_, v.value), reply)

\* Line 164 of Service.__init__: t is what _get_service_type returned or raised.
Service_with_type(a, reply, t) ==
  IF t.error # "" THEN Built(t.error, [service |-> a.service], <<>>)
  ELSE Service_with_version(a, t.value, reply, get_service_version(a.service))

\* Service.__init__ that keeps a Service whose description could not be fetched.
Service__init__tolerant(service, service_id, scpd_url, control_url, event_sub_url, base_url, reply) ==
  IF /\ get_service_type(service).error = ""
     /\ get_service_version(service).error = ""
     /\ reply.error # ""
  THEN Built("",
             ServiceFields(ServiceArgs(service, service_id, scpd_url, control_url,
                                       event_sub_url, base_url),
                           get_service_type(service).value,
                           get_service_version(service).value),
             <<[url |-> base_url \o scpd_url, ok |-> FALSE]>>)
  ELSE Service_with_type(ServiceArgs(service, service_id, scpd_url, control_url,
                                     event_sub_url, base_url),
                         reply, get_service_type(service))

\* Service.__init__: the Service, or the error raised with the fields
\* assigned before it was raised.  reply is the network's answer to the
\* request of base_url + scpd_url, if _get_description is reached.
Service__init__(service, service_id, scpd_url, control_url, event_sub_url, base_url, reply) ==
  Service_with_type(ServiceArgs(service, service_id, scpd_url, control_url,
                                event_sub_url, base_url),
                    reply, get_service_type(service))

(***************************************************************************)
(* Invocation: Service.__getattr__ and Action.execute                      *)
(***************************************************************************)
\* What the SOAP transport answers to one call: the decoded out arguments,
\* a SOAP fault or a transport error.
SoapReplies ==
  {Return("r0"), Return("r1"), [error |-> "SOAPError", value |-> "f401"],
   [error |-> "TransportError", value |-> ""]}

\* SOAP.send(service, action, **action_kwargs): one call of the transport.
SOAP_send(action, action_kwargs, reply) ==
  [sent |-> 1, reply |-> reply, error |-> reply.error, value |-> reply.value]

\* Action.execute sending again after a fault.
execute_retrying(action, action_kwargs, reply) ==
  IF reply.error = "" THEN SOAP_send(action, action_kwargs, reply)
  ELSE [SOAP_send(action, action_kwargs, reply) EXCEPT !.sent = 2]

\* Action.execute: the transport calls made and what is returned or raised.
execute(action, action_kwargs, reply) == SOAP_send(action, action_kwargs, reply)

\* What service.<action_name>(**action_kwargs) did: the calls of the SOAP
\* transport and the reply to them, whether Action.execute was reached,
\* what was returned or raised, the Service afterwards and the requests
\* made through utils.make_http_request.
Called(result, executed, service_obj, http_requests) ==
  [sent |-> result.sent, executed |-> executed, reply |-> result.reply,
   error |-> result.error, value |-> result.value,
   service |-> service_obj, requests |-> http_requests]
\* A call that ended without reaching Action.execute.
Unsent(error, value, service_obj, http_requests) ==
  Called([sent |-> 0, reply |-> Return(""), error |-> error, value |-> value],
         FALSE, service_obj, http_requests)
\* A call of a value that is not callable, or with keyword arguments that
\* do not fit the parameters.
Refused(service_obj) == Unsent("TypeError", "", service_obj, <<>>)

\* The parameters of Service.__init__ (line 162).
InitParameters ==
  {"service", "service_id", "scpd_url", "control_url", "event_sub_url", "base_url"}
\* The names the body of class Service binds (lines 162-350): its methods
\* and the class Action.
ServiceClassNames ==
  {"__init__", "_get_description", "_get_actions", "_get_service_type",
   "_get_service_version", "__getattr__", "Action"}
\* The attributes a Service has from Python: those of its class that the
\* body does not bind and those of object.
ObjectNames ==
  {"__class__", "__delattr__", "__dict__", "__dir__", "__doc__", "__eq__",
   "__format__", "__ge__", "__getattribute__", "__getstate__", "__gt__",
   "__hash__", "__init_subclass__", "__le__", "__lt__", "__module__", "__ne__",
   "__new__", "__reduce__", "__reduce_ex__", "__repr__", "__setattr__",
   "__sizeof__", "__str__", "__subclasshook__", "__weakref__"}
\* Those of them that return when called without argument.
ObjectReturning ==
  {"__dir__", "__getstate__", "__hash__", "__init_subclass__", "__repr__",
   "__sizeof__", "__str__", "__subclasshook__"}

\* The fields of new, and those of old that new does not have.
Merge(new, old) ==
  [k \in DOMAIN new \cup DOMAIN old |-> IF k \in DOMAIN new THEN new[k] ELSE old[k]]

\* Service.__getattr__(action_name), line 281: self.actions[action_name].
\* A Service without the field actions (its __init__ raised at line 164 or
\* 165) looks it up through __getattr__ again, without end; one whose
\* actions are still the list of line 171 cannot index it by a name.
Service__getattr__(service_obj, action_name) ==
  IF "actions" \notin DOMAIN service_obj THEN Raise("RecursionError")
  ELSE IF service_obj.actions = EmptyList THEN Raise("TypeError")
  ELSE IF action_name \notin DOMAIN service_obj.actions THEN Raise("KeyError")
  ELSE Return(service_obj.actions[action_name])

\* The error of reading self.<field>: none when the Service has the field,
\* otherwise that of __getattr__, which Python asks for it.
ReadError(service_obj, field) ==
  IF field \in DOMAIN service_obj THEN ""
  ELSE Service__getattr__(service_obj, field).error

\* service._get_description(), lines 188-190: http_reply is the answer to
\* the request of base_url + scpd_url.
Service_get_description(service_obj, http_reply) ==
  IF ReadError(service_obj, "base_url") # ""
  THEN Unsent(ReadError(service_obj, "base_url"), "", service_obj, <<>>)
  ELSE IF ReadError(service_obj, "scpd_url") # ""
  THEN Unsent(ReadError(service_obj, "scpd_url"), "", service_obj, <<>>)
  ELSE IF http_reply.error # ""
  THEN Unsent(http_reply.error, "", service_obj,
              <<[url |-> service_obj.base_url \o service_obj.scpd_url, ok |-> FALSE]>>)
  ELSE Unsent("", http_reply.value,
              [service_obj EXCEPT !.description = Some(http_reply.value)],
              <<[url |-> service_obj.base_url \o service_obj.scpd_url, ok |-> TRUE]>>)

\* service._get_actions(), lines 204-249: acts is what the parse of
\* self.description gave.
Service_assign_actions(service_obj, acts) ==
  IF acts.error # "" THEN Unsent(acts.error, "", service_obj, <<>>)
  ELSE Unsent("", acts.value, [service_obj EXCEPT !.actions = acts.value], <<>>)

\* service.__init__(...): built is what Service.__init__ did; the fields it
\* assigned replace those of the Service.
Service_reinit(service_obj, built) ==
  Unsent(built.error, IF built.error = "" THEN None ELSE "",
         Merge(built.value, service_obj), built.requests)

\* service.__class__(...): built is what the construction of another
\* Service did.
Service_new(service_obj, built) ==
  Unsent(built.error, IF built.error = "" THEN built.value ELSE "",
         service_obj, built.requests)

\* What a call returned or raised without touching the Service.
Service_pure(service_obj, result) ==
  Unsent(result.error, IF result.error = "" THEN result.value ELSE "", service_obj, <<>>)

\* The call of a name bound in the body of class Service.  Keyword
\* arguments that are not exactly the parameters are a TypeError; under
\* _service_description_required (lines 30-33) the missing description is
\* found before that.  The value of a keyword argument is given as the
\* code that reads it takes it: a service type or a URL as the sequence of
\* its characters, a name as a string, an argument list as a sequence of
\* Arguments.
Service_method(service_obj, name, action_kwargs, http_reply) ==
  CASE name = "_get_description" ->
         IF DOMAIN action_kwargs # {} THEN Refused(service_obj)
         ELSE Service_get_description(service_obj, http_reply)
    [] name = "_get_actions" ->
         IF "service" \in DOMAIN action_kwargs THEN Refused(service_obj)
         ELSE IF ReadError(service_obj, "description") # ""
              THEN Unsent(ReadError(service_obj, "description"), "", service_obj, <<>>)
         ELSE IF service_obj.description = None
              THEN Unsent("ValueError", "", service_obj, <<>>)
         ELSE IF DOMAIN action_kwargs # {} THEN Refused(service_obj)
         ELSE Service_assign_actions(service_obj,
                                     Service_get_actions(service_obj.description))
    [] name = "_get_service_type" ->
         IF DOMAIN action_kwargs # {"service"} THEN Refused(service_obj)
         ELSE Service_pure(service_obj, get_service_type(action_kwargs["service"]))
    [] name = "_get_service_version" ->
         IF DOMAIN action_kwargs # {"service"} THEN Refused(service_obj)
         ELSE Service_pure(service_obj, get_service_version(action_kwargs["service"]))
    [] name = "__getattr__" ->
         IF DOMAIN action_kwargs # {"action_name"} THEN Refused(service_obj)
         ELSE Service_pure(service_obj,
                           Service__getattr__(service_obj, action_kwargs["action_name"]))
    [] name = "Action" ->
         IF DOMAIN action_kwargs # {"name", "argument_list", "service"}
         THEN Refused(service_obj)
         ELSE Service_pure(service_obj,
                           Action__init__(action_kwargs["name"],
                                          action_kwargs["argument_list"]))
    [] name = "__init__" ->
         IF DOMAIN action_kwargs # InitParameters THEN Refused(service_obj)
         ELSE Service_reinit(service_obj,
                Service__init__(action_kwargs["service"], action_kwargs["service_id"],
                                action_kwargs["scpd_url"], action_kwargs["control_url"],
                                action_kwargs["event_sub_url"], action_kwargs["base_url"],
                                http_reply))

\* The call of an attribute a Service has from Python.  __class__ is the
\* class Service; __reduce__ looks up __slots__ on the Service, which
\* __getattr__ answers; the values the others return are not represented.
Object_method(service_obj, name, action_kwargs, http_reply) ==
  IF name = "__class__" /\ DOMAIN action_kwargs = InitParameters
  THEN Service_new(service_obj,
         Service__init__(action_kwargs["service"], action_kwargs["service_id"],
                         action_kwargs["scpd_url"], action_kwargs["control_url"],
                         action_kwargs["event_sub_url"], action_kwargs["base_url"],
                         http_reply))
  ELSE IF DOMAIN action_kwargs # {} THEN Refused(service_obj)
  ELSE IF name \in ObjectReturning THEN Unsent("", "", service_obj, <<>>)
  ELSE IF name = "__reduce__" /\ Service__getattr__(service_obj, "__slots__").error # ""
       THEN Unsent(Service__getattr__(service_obj, "__slots__").error, "", service_obj, <<>>)
  ELSE Refused(service_obj)

\* service.<action_name>(**action_kwargs).  Python looks the name up on
\* the Service first: a field assigned by __init__ (lines 163-172) is not
\* callable, a name of the class is called as it is.  Only a name found
\* nowhere goes to __getattr__ (line 281) and from there to Action.execute,
\* whose parameter self (line 315) no keyword argument may name.
\* reply is the answer of the SOAP transport and http_reply that of
\* utils.make_http_request, should the call reach them.
Service_call(service_obj, action_name, action_kwargs, reply, http_reply) ==
  IF action_name \in DOMAIN service_obj THEN Refused(service_obj)
  ELSE IF action_name \in ServiceClassNames
       THEN Service_method(service_obj, action_name, action_kwargs, http_reply)
  ELSE IF action_name \in ObjectNames
       THEN Object_method(service_obj, action_name, action_kwargs, http_reply)
  ELSE IF Service__getattr__(service_obj, action_name).error # ""
       THEN Unsent(Service__getattr__(service_obj, action_name).error, "", service_obj, <<>>)
  ELSE IF "self" \in DOMAIN action_kwargs THEN Refused(service_obj)
  ELSE Called(execute(service_obj.actions[action_name], action_kwargs, reply),
              TRUE, service_obj, <<>>)

(***************************************************************************)
(* URLs                                                                    *)
(***************************************************************************)
SchemeChars == LowerLetters \cup UpperLetters \cup Digits \cup {"+", "-", "."}
\* str.lower of one character of a scheme.
Lower(c) ==
  IF c \in UpperLetters
  THEN LowerAlphabet[CHOOSE i \in DOMAIN UpperAlphabet : UpperAlphabet[i] = c]
  ELSE c

\* ipaddress.IPv4Address._parse_octet succeeds: a decimal from 0 to 255 of
\* ASCII digits, at most three, without leading zero.
IsOctet(octet_str) ==
  /\ octet_str # <<>>
  /\ \A i \in 1..Len(octet_str) : octet_str[i] \in Digits
  /\ Len(octet_str) <= 3
  /\ (octet_str = <<"0">> \/ octet_str[1] # "0")
  /\ DecimalValue(octet_str, 0) <= 255
\* ipaddress.IPv4Address(addr_str) succeeds.
IsIPv4Address(addr_str) ==
  /\ ~Contains(addr_str, "/")
  /\ addr_str # <<>>
  /\ Len(SplitOn(addr_str, ".")) = 4
  /\ \A i \in 1..4 : IsOctet(SplitOn(addr_str, ".")[i])
\* ipaddress.IPv6Address._parse_hextet succeeds.
IsHextet(hextet_str) ==
  /\ \A i \in 1..Len(hextet_str) : hextet_str[i] \in HexDigits
  /\ Len(hextet_str) <= 4
  /\ hextet_str # <<>>
\* The parts of an IPv6 address after an IPv4-style suffix was converted
\* to two hextets.
HextetParts(parts) ==
  IF Contains(parts[Len(parts)], ".")
  THEN SubSeq(parts, 1, Len(parts) - 1) \o << <<"0">>, <<"0">> >>
  ELSE parts
\* The checks of _ip_int_from_string on the parts: at most nine, at most
\* one empty part that is neither first nor last ('::'), an empty first or
\* last part only next to it, eight parts without it and fewer hextets than
\* eight with it, and every part that is read a hextet.
IsHextetParts(parts) ==
  LET skips == {i \in 2..(Len(parts) - 1) : parts[i] = <<>>}
      skip_index == CHOOSE i \in skips : TRUE
      parts_hi == IF parts[1] = <<>> THEN skip_index - 2 ELSE skip_index - 1
      parts_lo == IF parts[Len(parts)] = <<>>
                  THEN Len(parts) - skip_index - 1 ELSE Len(parts) - skip_index
  IN /\ Len(parts) <= 9
     /\ Cardinality(skips) <= 1
     /\ IF skips # {}
        THEN /\ parts[1] = <<>> => parts_hi = 0
             /\ parts[Len(parts)] = <<>> => parts_lo = 0
             /\ 8 - (parts_hi + parts_lo) >= 1
             /\ \A i \in 1..parts_hi : IsHextet(parts[i])
             /\ \A i \in (Len(parts) - parts_lo + 1)..Len(parts) : IsHextet(parts[i])
        ELSE /\ Len(parts) = 8
             /\ \A i \in 1..Len(parts) : IsHextet(parts[i])
\* ipaddress.IPv6Address._ip_int_from_string(ip_str) succeeds.
IsIPv6Int(ip_str) ==
  /\ ip_str # <<>>
  /\ Len(Split(ip_str)) >= 3
  /\ Contains(Split(ip_str)[Len(Split(ip_str))], ".")
       => IsIPv4Address(Split(ip_str)[Len(Split(ip_str))])
  /\ IsHextetParts(HextetParts(Split(ip_str)))
\* ipaddress.IPv6Address(addr_str) succeeds: an address, then an optional
\* '%' and a scope id that is not empty and holds no '%'.
IsIPv6Address(addr_str) ==
  /\ ~Contains(addr_str, "/")
  /\ Contains(addr_str, "%")
       => (After(addr_str, "%") # <<>> /\ ~Contains(After(addr_str, "%"), "%"))
  /\ IsIPv6Int(Before(addr_str, "%"))
\* The match of \Av[a-fA-F0-9]+\..+\Z on a hostname.
IsIPvFuture(hostname) ==
  \E k \in 2..(Len(hostname) - 2) :
    /\ hostname[1] = "v"
    /\ \A j \in 2..k : hostname[j] \in HexDigits
    /\ hostname[k + 1] = "."
    /\ \A j \in (k + 2)..Len(hostname) : hostname[j] # "\n"
\* urllib.parse._check_bracketed_host does not raise: an IPvFuture address
\* when the host starts with v, otherwise an IPv6 address (an IPv4 address
\* in brackets is refused).
IsBracketedHost(hostname) ==
  IF hostname # <<>> /\ hostname[1] = "v" THEN IsIPvFuture(hostname)
  ELSE ~IsIPv4Address(hostname) /\ IsIPv6Address(hostname)
\* urllib.parse._checknetloc does not raise.
IsNfkcSafe(netloc) == \A i \in 1..Len(netloc) : netloc[i] \notin NfkcDelimiters

\* urlsplit's cleaning of the text: leading C0 controls and spaces are
\* stripped, then tabs and line ends are removed everywhere.
Cleaned(url) ==
  SelectSeq(LStrip(url, C0ControlOrSpace), LAMBDA c : c \notin {"\t", "\r", "\n"})

\* The netloc of a URL is valid: brackets come in pairs and hold an IP
\* literal, and no character normalises to a delimiter.
IsNetloc(netloc) ==
  /\ Contains(netloc, "[") = Contains(netloc, "]")
  /\ Contains(netloc, "[") => IsBracketedHost(Before(After(netloc, "["), "]"))
  /\ IsNfkcSafe(netloc)

\* urllib.parse.urlparse of a cleaned text: its scheme and netloc, or the
\* ValueError of an invalid netloc.
urlparse_cleaned(url) ==
  LET i == Find(url, {":"})
      hasScheme == /\ i > 1
                   /\ url[1] \in LowerLetters \cup UpperLetters
                   /\ \A k \in 1..(i - 1) : url[k] \in SchemeChars
      scheme == IF hasScheme THEN [k \in 1..(i - 1) |-> Lower(url[k])] ELSE <<>>
      rest == IF hasScheme THEN SubSeq(url, i + 1, Len(url)) ELSE url
      hasNetloc == Len(rest) >= 2 /\ rest[1] = "/" /\ rest[2] = "/"
      after == SubSeq(rest, 3, Len(rest))
      delim == Find(after, {"/", "?", "#"})
      netloc == IF ~hasNetloc THEN <<>>
                ELSE IF delim = 0 THEN after ELSE SubSeq(after, 1, delim - 1)
  IN IF ~IsNetloc(netloc)
     THEN Raise("ValueError")
     ELSE Return([scheme |-> scheme, netloc |-> netloc])

\* urllib.parse.urlparse, its scheme and netloc.
urlparse(url) == urlparse_cleaned(Cleaned(url))

\* f'{parsed_url.scheme}://{parsed_url.netloc}'
SchemeNetloc(parsed_url) == parsed_url.scheme \o <<":", "/", "/">> \o parsed_url.netloc

\* The URLs devices give, by their parts, and the text of each.
UrlParts ==
  [scheme : {<<"h", "t", "t", "p">>}, host : {<<"a">>, <<"b">>},
   port : {<<>>, <<"8">>}, path : {<<>>, <<"/", "d">>}]
UrlText(u) ==
  u.scheme \o <<":", "/", "/">> \o u.host
    \o (IF u.port = <<>> THEN <<>> ELSE <<":">> \o u.port) \o u.path
\* scheme+host+port of a URL given by its parts.
UrlOrigin(u) ==
  u.scheme \o <<":", "/", "/">> \o u.host
    \o (IF u.port = <<>> THEN <<>> ELSE <<":">> \o u.port)

(***************************************************************************)
(* Device descriptions                                                     *)
(***************************************************************************)
\* The words of the service types and service ids of the descriptions.
Urn == <<"u", "r", "n">>
SchemasUpnpOrg ==
  <<"s", "c", "h", "e", "m", "a", "s", "-", "u", "p", "n", "p", "-", "o", "r", "g">>
UpnpOrg == <<"u", "p", "n", "p", "-", "o", "r", "g">>
Vendor == <<"v", "e", "n", "d", "o", "r">>
ServiceWord == <<"s", "e", "r", "v", "i", "c", "e">>
ServiceIdWord == <<"s", "e", "r", "v", "i", "c", "e", "I", "d">>
WANIPConnection ==
  <<"W", "A", "N", "I", "P", "C", "o", "n", "n", "e", "c", "t", "i", "o", "n">>
WANPPPConnection ==
  <<"W", "A", "N", "P", "P", "P", "C", "o", "n", "n", "e", "c", "t", "i", "o", "n">>
L3Forwarding == <<"L", "3", "F", "o", "r", "w", "a", "r", "d", "i", "n", "g">>
WANIPConn1 == <<"W", "A", "N", "I", "P", "C", "o", "n", "n", "1">>
WANPPPConn1 == <<"W", "A", "N", "P", "P", "P", "C", "o", "n", "n", "1">>
L3Forwarding1 == <<"L", "3", "F", "o", "r", "w", "a", "r", "d", "i", "n", "g", "1">>

\* urn:schemas-upnp-org:service:<name>:<version>
ServiceType(name, version) == Join(<<Urn, SchemasUpnpOrg, ServiceWord, name, version>>)
\* urn:<domain>:serviceId:<token>
ServiceId(domain, token) == Join(<<Urn, domain, ServiceIdWord, token>>)
\* One <service> element of a device description.
ServiceElement(service_type, service_id, scpd_url) ==
  [serviceType |-> service_type, serviceId |-> service_id,
   SCPDURL |-> scpd_url, controlURL |-> <<"/", "c">>, eventSubURL |-> <<"/", "e">>]
\* Four <service> elements: the first two have service ids with the same
\* last token, the fourth has a service type without version.
ServiceElements ==
  {ServiceElement(ServiceType(WANIPConnection, <<"1">>), ServiceId(UpnpOrg, WANIPConn1),
                  <<"/", "s", "1">>),
   ServiceElement(ServiceType(WANIPConnection, <<"1">>), ServiceId(Vendor, WANIPConn1),
                  <<"/", "s", "2">>),
   ServiceElement(ServiceType(WANPPPConnection, <<"2">>), ServiceId(UpnpOrg, WANPPPConn1),
                  <<"/", "s", "3">>),
   ServiceElement(Join(<<Urn, SchemasUpnpOrg, ServiceWord, L3Forwarding>>),
                  ServiceId(UpnpOrg, L3Forwarding1), <<"/", "s", "4">>)}
ServiceLists == UNION {[1..n -> ServiceElements] : n \in 0..MaxServices}

\* The discovery responses: the Location header is the description's URL.
Responses ==
  {[Location |-> UrlText(u)] : u \in {v \in UrlParts : v.host = <<"a">> /\ v.path # <<>>}}
\* The <URLBase> elements of a description: none, an empty one, one with a
\* URL, or two of them.
UrlBaseLists ==
  {<<>>, << <<>> >>}
    \cup {<< <<UrlText(u)>> >> : u \in {v \in UrlParts : v.host = <<"b">>}}
    \cup {<< <<UrlText(u)>>, <<UrlText(v)>> >> :
            u \in {w \in UrlParts : w.host = <<"b">> /\ w.port # <<>> /\ w.path = <<>>},
            v \in {w \in UrlParts : w.host = <<"a">> /\ w.port = <<>> /\ w.path = <<>>}}
DeviceDescriptions ==
  [deviceType : {<<>>, << <<"igd">> >>}, URLBase : UrlBaseLists, services : ServiceLists]

\* The service descriptions the device serves in the device-level specification.
SampleServiceDescriptions ==
  {<<>>,
   <<[name |-> "X", argumentList |-> <<>>]>>,
   <<[name |-> "X", argumentList |->
        << <<[name |-> "a", direction |-> "in", retval |-> <<>>,
              relatedStateVariable |-> "V"]>> >>]>>,
   <<[name |-> "Y", argumentList |->
        << <<[name |-> "a", direction |-> "inout", retval |-> <<>>,
              relatedStateVariable |-> "V"]>> >>]>>}
SampleReplies == {HttpError} \cup {HttpOk(d) : d \in SampleServiceDescriptions}

(***************************************************************************)
(* SSDPDevice                                                              *)
(***************************************************************************)
\* utils.parse_http_header(response, 'Location')
parse_http_header(response) == response.Location

\* utils.parse_service_id: the text after the last colon of the service id.
parse_service_id(service_id) == Split(service_id)[Len(Split(service_id))]

\* SSDPDevice._get_type under _device_description_required.
get_type(description) ==
  IF description = None THEN Raise("ValueError")
  ELSE FirstText(description[1].deviceType)

\* Lines 100-101 and 103-104: the base URL of a parsed URL, or urlparse's error.
base_url_of(parsed_url) ==
  IF parsed_url.error # "" THEN parsed_url ELSE Return(SchemeNetloc(parsed_url.value))

\* _get_base_url that takes the Location header whatever the description says.
get_base_url_location(description, response) ==
  IF description = None THEN Raise("ValueError")
  ELSE base_url_of(urlparse(parse_http_header(response)))

\* SSDPDevice._get_base_url under _device_description_required.
get_base_url(description, response) ==
  IF description = None THEN Raise("ValueError")
  ELSE LET location_header_value == parse_http_header(response)
           e == First(description[1].URLBase)
       IN IF e.error = "IndexError"
          THEN base_url_of(urlparse(location_header_value))
          ELSE LET t == nodeValue(e.value)
               IN IF t.error # "" THEN t
                  ELSE base_url_of(urlparse(t.value))

\* The test of line 127 passing for every service id.
is_new_service_always(parsed_service_id, device_services) == TRUE

\* parsed_service_id not in device_services.keys()
is_new_service(parsed_service_id, device_services) ==
  parsed_service_id \notin DOMAIN device_services

\* The loop of _get_services over the <service> elements.  replies[i] is
\* what the network answers if the i-th element's SCPD is requested;
\* requests are the requests made, in order.  service_built stores the
\* Service s built from the i-th element, or raises its error, after the
\* requests Service.__init__ made.
RECURSIVE services_loop(_, _, _, _, _, _)
RECURSIVE service_built(_, _, _, _, _, _, _)
services_loop(elements, i, device_services, base_url, replies, requests) ==
  IF i > Len(elements)
  THEN [error |-> "", value |-> device_services, requests |-> requests]
  ELSE IF is_new_service(parse_service_id(elements[i].serviceId), device_services)
       THEN service_built(elements, i, device_services, base_url, replies, requests,
                          Service__init__(elements[i].serviceType, elements[i].serviceId,
                                          elements[i].SCPDURL, elements[i].controlURL,
                                          elements[i].eventSubURL, base_url, replies[i]))
       ELSE services_loop(elements, i + 1, device_services, base_url, replies, requests)
service_built(elements, i, device_services, base_url, replies, requests, s) ==
  IF s.error # ""
  THEN [error |-> s.error, value |-> device_services, requests |-> requests \o s.requests]
  ELSE services_loop(elements, i + 1,
                     DictSet(device_services, parse_service_id(elements[i].serviceId),
                             s.value),
                     base_url, replies, requests \o s.requests)

\* Lines 137-139: self.services is assigned when the loop r ended without error.
services_assigned(services, r) ==
  [error |-> r.error, value |-> IF r.error = "" THEN r.value ELSE services,
   requests |-> r.requests, parsed |-> 1]

\* SSDPDevice._get_services under _device_description_required and
\* _base_url_required: the value of self.services afterwards (value), the
\* requests made and the number of times the description was parsed.
get_services(description, base_url, services, replies) ==
  IF description = None \/ base_url = None
  THEN [error |-> "ValueError", value |-> services, requests |-> <<>>, parsed |-> 0]
  ELSE IF DOMAIN services = {}
  THEN services_assigned(services,
                         services_loop(description[1].services, 1, EmptyDict,
                                       base_url[1], replies, <<>>))
  ELSE [error |-> "", value |-> services, requests |-> <<>>, parsed |-> 0]

\* The fields of a device, the error __init__ raised, the requests made and
\* the number of times _get_services parsed the description.
DeviceFields(description, type_, base_url, services, error, requests, parsed) ==
  [description |-> description, type_ |-> type_, base_url |-> base_url,
   services |-> services, error |-> error, requests |-> requests, parsed |-> parsed]

\* Line 79 of SSDPDevice.__init__: s is what _get_services did.
Device_with_services(description, type_, base_url, requests, s) ==
  DeviceFields(description, type_, base_url, s.value, s.error,
               requests \o s.requests, s.parsed)

\* Lines 78-79: b is what _get_base_url returned or raised.
Device_with_base_url(description, type_, requests, replies, b) ==
  IF b.error # ""
  THEN DeviceFields(description, type_, None, EmptyDict, b.error, requests, 0)
  ELSE Device_with_services(description, type_, Some(b.value), requests,
                            get_services(description, Some(b.value), EmptyDict, replies))

\* Lines 77-79: t is what _get_type returned or raised.
Device_with_type(response, description, requests, replies, t) ==
  IF t.error # ""
  THEN DeviceFields(description, None, None, EmptyDict, t.error, requests, 0)
  ELSE Device_with_base_url(description, Some(t.value), requests, replies,
                            get_base_url(description, response))

\* SSDPDevice.__init__: the fields of the device when __init__ returns or
\* raises.  reply is the network's answer to the request of the
\* description, replies its answers to the requests of the SCPDs.
Device__init__(response, reply, replies) ==
  IF reply.error # ""
  THEN DeviceFields(None, None, None, EmptyDict, reply.error,
                    <<[url |-> parse_http_header(response), ok |-> FALSE]>>, 0)
  ELSE Device_with_type(response, Some(reply.value),
                        <<[url |-> parse_http_header(response), ok |-> TRUE]>>,
                        replies, get_type(Some(reply.value)))

(***************************************************************************)
(* State                                                                   *)
(***************************************************************************)
VARIABLES
  response,         \* SSDPDevice.response: the discovery response
  description,      \* SSDPDevice.description
  type_,            \* SSDPDevice.type_
  base_url,         \* SSDPDevice.base_url
  services,         \* SSDPDevice.services
  devState,         \* "new": __init__ not run; "ready": it returned; "failed": it raised
  devError,         \* the error raised by the last call on the device, "" if none
  requests,         \* the requests made through utils.make_http_request, in order
  services_parses,  \* the number of times _get_services parsed the description
  calls,            \* the number of calls of _get_services after construction
  svc,              \* a Service: the arguments of __init__, then its fields
  svcState,         \* "new": __init__ not run; "ready": it returned; "failed": it raised
  svcError,         \* the error raised by Service.__init__, "" if none
  invocation        \* the last invocation of an action on svc

vars == <<response, description, type_, base_url, services, devState, devError,
          requests, services_parses, calls, svc, svcState, svcError, invocation>>
deviceVars == <<response, description, type_, base_url, services, devState, devError,
                requests, services_parses, calls>>
serviceVars == <<svc, svcState, svcError, invocation>>

NoInvocation ==
  [action_name |-> "", action_kwargs |-> <<>>, sent |-> 0, executed |-> FALSE,
   reply |-> Return(""), error |-> "", value |-> ""]
\* The arguments the Service of the service-level specification is built
\* with: service types with and without a version that int() accepts.
SvcBaseUrl == <<"h", "t", "t", "p", ":", "/", "/", "a">>
VersionTexts == {<<"1">>, <<"+", "1", "0">>, <<"x">>, <<"1", "_">>, <<>>}
SvcServiceTypes ==
  {ServiceType(WANIPConnection, v) : v \in VersionTexts}
    \cup {Join(<<Urn, SchemasUpnpOrg, ServiceWord, WANIPConnection>>),
          Join(<<Urn, SchemasUpnpOrg, ServiceWord>>)}
SvcArgs(service) ==
  ServiceArgs(service, ServiceId(UpnpOrg, WANIPConn1), <<"/", "s", "1">>,
              <<"/", "c">>, <<"/", "e">>, SvcBaseUrl)

DeviceNew(state) ==
  /\ description = None
  /\ type_ = None
  /\ base_url = None
  /\ services = EmptyDict
  /\ devState = state
  /\ devError = ""
  /\ requests = <<>>
  /\ services_parses = 0
  /\ calls = 0

ServiceNew(state) ==
  /\ svc \in {SvcArgs(service) : service \in SvcServiceTypes}
  /\ svcState = state
  /\ svcError = ""
  /\ invocation = NoInvocation

\* A device about to be constructed from a discovery response.
Init ==
  /\ response \in Responses
  /\ DeviceNew("new")
  /\ svc = SvcArgs(ServiceType(WANIPConnection, <<"1">>))
  /\ svcState = "unused"
  /\ svcError = ""
  /\ invocation = NoInvocation

\* A service about to be constructed.
InitService ==
  /\ response = [Location |-> SvcBaseUrl \o <<"/", "d">>]
  /\ DeviceNew("unused")
  /\ ServiceNew("new")

(***************************************************************************)
(* Operations                                                              *)
(***************************************************************************)
DescriptionReplies == {HttpError} \cup {HttpOk(d) : d \in DeviceDescriptions}

\* SSDPDevice(address, response)
Construct ==
  /\ devState = "new"
  /\ \E reply \in DescriptionReplies :
       \E replies \in [1..(IF reply.error = "" THEN Len(reply.value.services) ELSE 0)
                       -> SampleReplies] :
         \E d \in {Device__init__(response, reply, replies)} :
            /\ description' = d.description
            /\ type_' = d.type_
            /\ base_url' = d.base_url
            /\ services' = d.services
            /\ devState' = IF d.error = "" THEN "ready" ELSE "failed"
            /\ devError' = d.error
            /\ requests' = d.requests
            /\ services_parses' = d.parsed
  /\ UNCHANGED <<response, calls, serviceVars>>

\* device._get_services() on a constructed device
GetServices ==
  /\ devState = "ready"
  /\ calls < MaxCalls
  /\ \E replies \in [1..Len(description[1].services) -> SampleReplies] :
       \E r \in {get_services(description, base_url, services, replies)} :
          /\ services' = r.value
          /\ devError' = r.error
          /\ requests' = requests \o r.requests
          /\ services_parses' = services_parses + r.parsed
  /\ calls' = calls + 1
  /\ UNCHANGED <<response, description, type_, base_url, devState, serviceVars>>

ServiceReplies == {HttpError} \cup {HttpOk(d) : d \in ServiceDescriptions}

\* SSDPDevice.Service(service, service_id, scpd_url, control_url, event_sub_url, base_url)
ServiceConstruct ==
  /\ svcState = "new"
  /\ \E reply \in ServiceReplies :
       \E s \in {Service__init__(svc.service, svc.service_id, svc.scpd_url,
                                svc.control_url, svc.event_sub_url, svc.base_url, reply)} :
          /\ svc' = s.value
          /\ svcError' = s.error
          /\ svcState' = IF s.error = "" THEN "ready" ELSE "failed"
          /\ requests' = requests \o s.requests
  /\ UNCHANGED <<response, description, type_, base_url, services, devState, devError,
                 services_parses, calls, invocation>>

\* The keyword arguments of a call: some of the argument names, each with
\* a value.
KeywordArguments == UNION {[names -> {<<"1">>}] : names \in SUBSET ArgNames}

\* service.<action_name>(**action_kwargs) for the name of an action.  No
\* name of ActionNames is a method that makes a request, so the answer of
\* utils.make_http_request is never read.
Execute ==
  /\ svcState = "ready"
  /\ \E action_name \in ActionNames, action_kwargs \in KeywordArguments,
        reply \in SoapReplies :
       \E r \in {Service_call(svc, action_name, action_kwargs, reply, HttpError)} :
          /\ invocation' = [action_name |-> action_name, action_kwargs |-> action_kwargs,
                            sent |-> r.sent, executed |-> r.executed, reply |-> r.reply,
                            error |-> r.error, value |-> r.value]
          /\ svc' = r.service
          /\ requests' = requests \o r.requests
  /\ UNCHANGED <<response, description, type_, base_url, services, devState, devError,
                 services_parses, calls, svcState, svcError>>

Next == Construct \/ GetServices
Spec == Init /\ [][Next]_vars

NextService == ServiceConstruct \/ Execute
SpecService == InitService /\ [][NextService]_vars

(***************************************************************************)
(* Properties of a service: its actions and their invocation               *)
(* (checked under SpecService)                                             *)
(***************************************************************************)
\* The <action> elements of the description the service fetched.
SvcActions == svc.description[1]
SvcDescribed ==
  /\ svcState \in {"ready", "failed"}
  /\ "description" \in DOMAIN svc
  /\ svc.description # None
\* The <argument> elements an <action> element declares.
Declared(action) == IF action.argumentList = <<>> THEN <<>> ELSE action.argumentList[1]
\* No later <action> element has the name of the i-th.
LastOfName(i) == \A j \in (i + 1)..Len(SvcActions) : SvcActions[j].name # SvcActions[i].name
BadDirection(action) ==
  \E k \in 1..Len(Declared(action)) : Declared(action)[k].direction \notin {"in", "out"}
EmptyRetval(action) ==
  \E k \in 1..Len(Declared(action)) : Declared(action)[k].retval = << <<>> >>
\* The last invocation named a declared action that no field of the
\* Service hides.
Invoked ==
  /\ svcState = "ready"
  /\ invocation.action_name \in DOMAIN svc.actions
  /\ invocation.action_name \notin DOMAIN svc
InNames(action) == {action.args_in[k].name : k \in 1..Len(action.args_in)}

\* C1: invoking a declared action with a keyword argument that is not the
\* name of one of its "in" arguments fails with UnknownArgument and makes
\* no call to the SOAP transport.
C1_UnknownArgumentRefused ==
  (/\ Invoked
   /\ \E k \in DOMAIN invocation.action_kwargs :
        k \notin InNames(svc.actions[invocation.action_name]))
    => (invocation.sent = 0 /\ invocation.error = "UnknownArgument")

\* C3: when an argument of an action of the description has a direction
\* other than "in" or "out", the construction fails with an error and the
\* service holds no Action (its actions are still the empty list of line
\* 171); the error is the ValueError of Action.__init__ unless an empty
\* <retval> made _get_actions fail.
C3_InvalidDirectionRefused ==
  (SvcDescribed /\ \E i \in 1..Len(SvcActions) : BadDirection(SvcActions[i]))
    => /\ svcState = "failed"
       /\ svcError \in {"ValueError", "AttributeError"}
       /\ ((\A i \in 1..Len(SvcActions) : ~EmptyRetval(SvcActions[i]))
             => svcError = "ValueError")
       /\ svc.actions = EmptyList

\* C3's case: the second action has the argument of unknown direction, the
\* first was built before it, and the service holds no Action.
C3_Witness ==
  /\ SvcDescribed
  /\ svcState = "failed"
  /\ svcError = "ValueError"
  /\ Len(SvcActions) = 2
  /\ ~BadDirection(SvcActions[1])
  /\ BadDirection(SvcActions[2])
  /\ SvcActions[1].name # SvcActions[2].name
  /\ svc.actions = EmptyList

\* C4: for arguments with valid directions, the construction succeeds and
\* an Argument is flagged as the return value (return_value is not None)
\* if and only if its <argument> element has a <retval> element, whatever
\* that element's content, an empty <retval/> included.
C4_RetvalByPresence ==
  (SvcDescribed /\ \A i \in 1..Len(SvcActions) : ~BadDirection(SvcActions[i]))
    => /\ svcState = "ready"
       /\ \A i \in 1..Len(SvcActions) :
            LastOfName(i) =>
              /\ SvcActions[i].name \in DOMAIN svc.actions
              /\ Len(svc.actions[SvcActions[i].name].arguments) = Len(Declared(SvcActions[i]))
              /\ \A k \in 1..Len(Declared(SvcActions[i])) :
                   (svc.actions[SvcActions[i].name].arguments[k].return_value # None)
                     <=> (Declared(SvcActions[i])[k].retval # <<>>)

\* C5: an <action> element with a name and no <argumentList> does not make
\* the construction fail, and its Action is registered under its name with
\* arguments, args_in and args_out empty.
C5_NoArgumentList ==
  SvcDescribed =>
    /\ (\A i \in 1..Len(SvcActions) :
          \/ SvcActions[i].argumentList = <<>>
          \/ (~BadDirection(SvcActions[i]) /\ ~EmptyRetval(SvcActions[i])))
         => svcState = "ready"
    /\ svcState = "ready" =>
         \A i \in 1..Len(SvcActions) :
           (SvcActions[i].argumentList = <<>> /\ LastOfName(i)) =>
             /\ SvcActions[i].name \in DOMAIN svc.actions
             /\ svc.actions[SvcActions[i].name] =
                  [name |-> SvcActions[i].name, arguments |-> <<>>,
                   args_in |-> <<>>, args_out |-> <<>>]

\* C5's case: a service built from an action without <argumentList> and
\* another action that has arguments.
C5_Witness ==
  /\ svcState = "ready"
  /\ \E i, j \in 1..Len(SvcActions) :
       /\ SvcActions[i].argumentList = <<>>
       /\ Len(Declared(SvcActions[j])) > 0
       /\ SvcActions[i].name # SvcActions[j].name
       /\ svc.actions[SvcActions[i].name].arguments = <<>>

\* The last invocation reached Action.execute.
Executed == svcState = "ready" /\ invocation.executed

\* C9: an invocation makes at most one call to the SOAP transport; when it
\* makes one, what that call returned or raised (a SOAP fault, a transport
\* error) is what the invocation returns or raises, unchanged; and an
\* invocation that does not reach Action.execute (the name is no action,
\* or it is an attribute of the Service) makes none.
C9_NoRetry ==
  /\ invocation.sent <= 1
  /\ invocation.sent = 1 =>
       /\ invocation.error = invocation.reply.error
       /\ invocation.value = invocation.reply.value
  /\ ~Executed => invocation.sent = 0

\* C9's case: an invocation that the transport answered with a SOAP fault.
C9_Witness ==
  /\ Executed
  /\ invocation.reply.error = "SOAPError"
  /\ invocation.error = "SOAPError"
  /\ invocation.sent = 1

\* C10: in every constructed Action, arguments are the declared arguments
\* in order, args_in is the subsequence of those of direction "in",
\* args_out the subsequence of those of direction "out", and every
\* argument is in exactly one of the two.
C10_ArgsPartition ==
  svcState = "ready" =>
    \A i \in 1..Len(SvcActions) :
      LastOfName(i) =>
        /\ SvcActions[i].name \in DOMAIN svc.actions
        /\ \E a \in {svc.actions[SvcActions[i].name]} :
             /\ Len(a.arguments) = Len(Declared(SvcActions[i]))
             /\ \A k \in 1..Len(a.arguments) :
                  /\ a.arguments[k].name = Declared(SvcActions[i])[k].name
                  /\ a.arguments[k].direction = Declared(SvcActions[i])[k].direction
                  /\ a.arguments[k].direction \in {"in", "out"}
             /\ a.args_in = SelectSeq(a.arguments, LAMBDA x : x.direction = "in")
             /\ a.args_out = SelectSeq(a.arguments, LAMBDA x : x.direction = "out")
             /\ Len(a.args_in) + Len(a.args_out) = Len(a.arguments)

\* C10's case: an Action whose args_in holds two "in" arguments of different
\* names, so that their order is observable.
C10_Witness ==
  /\ svcState = "ready"
  /\ \E n \in DOMAIN svc.actions :
       /\ Len(svc.actions[n].args_in) = 2
       /\ svc.actions[n].args_in[1].name # svc.actions[n].args_in[2].name

(***************************************************************************)
(* Properties of a device: its base URL and its services map               *)
(* (checked under Spec)                                                    *)
(***************************************************************************)
DevElements == description[1].services
\* The first <service> element whose service id parses to the key of the i-th.
FirstOfKey(i) ==
  CHOOSE f \in 1..i :
    /\ parse_service_id(DevElements[f].serviceId) = parse_service_id(DevElements[i].serviceId)
    /\ \A g \in 1..(f - 1) :
         parse_service_id(DevElements[g].serviceId) # parse_service_id(DevElements[i].serviceId)
\* scheme+host+port of a URL text, by the parts the text was made of.
OriginOf(text) == UrlOrigin(CHOOSE u \in UrlParts : UrlText(u) = text)

\* C2: once the first computation of the services map has completed, a
\* call of _get_services neither parses the description again nor makes
\* any request (builds any Service).
C2_ServicesComputedOnce ==
  [][devState = "ready" => (services_parses' = services_parses /\ requests' = requests)]_vars

\* C6: the base URL is scheme+host+port of the first <URLBase> element's
\* URL when the description has a <URLBase> element, and of the Location
\* header when it has none.
C6_BaseUrl ==
  (devState # "new" /\ description # None /\ type_ # None) =>
    /\ description[1].URLBase = <<>> =>
         base_url = Some(OriginOf(parse_http_header(response)))
    /\ (description[1].URLBase # <<>> /\ description[1].URLBase[1] # <<>>) =>
         base_url = Some(OriginOf(description[1].URLBase[1][1]))

\* C6's case: a description with two <URLBase> elements, the first one's
\* origin differing from the Location header's and from the second one's.
C6_Witness ==
  /\ devState = "ready"
  /\ Len(description[1].URLBase) = 2
  /\ base_url = Some(OriginOf(description[1].URLBase[1][1]))
  /\ base_url # Some(OriginOf(description[1].URLBase[2][1]))
  /\ base_url # Some(OriginOf(parse_http_header(response)))

\* C7: the services map holds one Service per distinct key, the one built
\* from the first <service> element of that key; a later element of the
\* same key raises nothing, replaces nothing and has no SCPD requested.
C7_FirstServiceKept ==
  devState = "ready" =>
    /\ DOMAIN services =
         {parse_service_id(DevElements[i].serviceId) : i \in 1..Len(DevElements)}
    /\ \A i \in 1..Len(DevElements) :
         /\ services[parse_service_id(DevElements[i].serviceId)].id =
              DevElements[FirstOfKey(i)].serviceId
         /\ services[parse_service_id(DevElements[i].serviceId)].scpd_url =
              DevElements[FirstOfKey(i)].SCPDURL
    /\ Len(requests) = 1 + Cardinality(DOMAIN services)

\* C7's case: two <service> elements with different service ids that parse
\* to the same key.
C7_Witness ==
  /\ devState = "ready"
  /\ Len(DevElements) = 2
  /\ DevElements[1].serviceId # DevElements[2].serviceId
  /\ parse_service_id(DevElements[1].serviceId) = parse_service_id(DevElements[2].serviceId)
  /\ Cardinality(DOMAIN services) = 1

\* C8: a request that ended in a transport error is the last request made:
\* the construction failed with that error, no later service was built or
\* fetched, and the device has no services map.
C8_FetchErrorFailsDevice ==
  \A i \in 1..Len(requests) :
    ~requests[i].ok =>
      /\ i = Len(requests)
      /\ devState = "failed"
      /\ devError = "TransportError"
      /\ DOMAIN services = {}

\* C8's case: the SCPD request of the first of two services of different
\* keys failed, and the second was not requested.
C8_Witness ==
  /\ devState = "failed"
  /\ devError = "TransportError"
  /\ description # None
  /\ Len(DevElements) = 2
  /\ parse_service_id(DevElements[1].serviceId) # parse_service_id(DevElements[2].serviceId)
  /\ Len(requests) = 2
  /\ ~requests[2].ok
  /\ DOMAIN services = {}

====
